---- MODULE Spec2Model ----
(***************************************************************************)
(* Model of the Vietnamese PDF ebook generator: the parallel sheet         *)
(* scheduler (src/src/thread_manager.py), the sheet task                   *)
(* (process_single_sheet) and the command line driver (src/main.py).       *)
(***************************************************************************)
EXTENDS Integers, Sequences, FiniteSets, TLC

\* ------------------------------------------------------------------ bounds
MaxSheets == 3
MaxWorkers == 2
MaxRows == 2
MaxLiveSheets == 2

\* --------------------------------------------------------------- constants
\* future.result(timeout=300)
Timeout == 300

SheetNames == {"A", "B", "C"}

\* sentinel for "the collaborator raised" where a row/block count is expected
Raised == -1

SeqsUpTo(S, n) == UNION {[1..k -> S] : k \in 0..n}

Range(s) == {s[i] : i \in 1..Len(s)}

\* how long a task body may take, around the 300 unit budget
Durations == {1, Timeout + 1}

VARIABLES
    sheets,            \* argument of process_sheets_parallel
    processor_func,    \* "process_single_sheet" or "callable" (any function)
    max_workers,       \* ThreadManager.max_workers
    spc,               \* position of process_sheets_parallel
    pool_created,      \* a ThreadPoolExecutor was created
    future_to_sheet,   \* sheet name of each submitted future, in submission order
    fstate,            \* per future: "pending", "running", "done"
    fret,              \* per future: "-", "path", "None", "raise"
    fdur,              \* per future: time its body ran (0 while not finished)
    fraised,           \* per future: an exception was raised while its body ran
    collected,         \* futures already yielded by as_completed
    results            \* the dict under construction: sequence of <<key, value>>

schedVars == <<sheets, processor_func, max_workers, spc, pool_created,
               future_to_sheet, fstate, fret, fdur, fraised, collected, results>>

VARIABLES
    mpc,               \* position of main ("none": main is not running)
    args_sheets,       \* --sheets, <<>> when the option is absent
    creds_exist,       \* os.path.exists(config['credentials_path'])
    id_set,            \* config['spreadsheet_id'] is a non-empty string
    sheet_names,       \* spreadsheet_info['sheet_names']
    content,           \* rows of column D the spreadsheet holds per sheet
    sheets_to_process,
    warnings,          \* number of "Sheets not found" warnings logged
    pdf_files,         \* the list main passes to merge_sheets_to_ebook
    merge_calls,       \* number of calls of merge_sheets_to_ebook
    final_file,        \* "absent", "empty" or "nonempty": the final ebook on disk
    merge_ret,         \* "-", "path" or "None": what merge_sheets_to_ebook returned
    ebook_stats,       \* keys of the dict get_ebook_stats returned, {} before
    success_rate,      \* <<done, requested>> of the summary, <<>> if not printed
    exit_code          \* -1 while main runs, then its return value

mainVars == <<mpc, args_sheets, creds_exist, id_set, sheet_names, content,
              sheets_to_process, warnings, pdf_files, merge_calls, final_file,
              merge_ret, ebook_stats, success_rate, exit_code>>

VARIABLE
    task               \* one call of process_single_sheet: its collaborators'
                       \* behaviour, its return value and the calls it made

VARIABLES
    reader,            \* one call of SheetsReader.read_column_d; ret is the
                       \* number of blocks returned once pc = "returned"
    pool,              \* the thread count main configures and the pool built from it
    cleaner,           \* a text and what clean_vietnamese_text makes of it
    proc,              \* one call of ContentProcessor.process_sheet_content
    detector,          \* a text and what detect_content_type makes of it
    story              \* one call of BusinessPDFGenerator._build_story

unitVars == <<task, reader, pool, cleaner, proc, detector, story>>

vars == <<schedVars, mainVars, unitVars>>

\* ------------------------------------------------------------ dict helpers
Keys(d) == {d[i][1] : i \in 1..Len(d)}

\* the characters of the sheet names the model uses
Spelling(name) ==
    CASE name = "A" -> <<"A">>
      [] name = "B" -> <<"B">>
      [] name = "C" -> <<"C">>
      [] name = "A/B" -> <<"A", "/", "B">>
      [] name = "A_B" -> <<"A", "_", "B">>

\* the character class [<>:"/\\|?*] of _sanitize_filename
UnsafeChars == {"<", ">", ":", "\"", "/", "\\", "|", "?", "*"}

\* _sanitize_filename: re.sub of the class by "_", then the first 50 characters
SanitizeFilename(filename) ==
    LET safe_name == [i \in 1..Len(filename) |->
                         IF filename[i] \in UnsafeChars THEN "_" ELSE filename[i]]
    IN  IF Len(safe_name) > 50 THEN SubSeq(safe_name, 1, 50) ELSE safe_name

\* output_path = os.path.join(self.output_dir, f"{safe_filename}.pdf")
ArtifactPath(sheet_name) ==
    <<"temp">> \o SanitizeFilename(Spelling(sheet_name)) \o <<".pdf">>

DictSetAppends(d, k, v) == Append(d, <<k, v>>)

\* results[sheet_name] = result : replaces the value of an existing key
DictSet(d, k, v) ==
    IF k \in Keys(d)
    THEN [i \in 1..Len(d) |-> IF d[i][1] = k THEN <<k, v>> ELSE d[i]]
    ELSE Append(d, <<k, v>>)

DictGet(d, k) == LET i == CHOOSE j \in 1..Len(d) : d[j][1] = k IN d[i][2]

\* ------------------------------------------------------- process_single_sheet
\* read : Raised or the number of rows the reader returned
\* norm : Raised or the number of content blocks the normalizer produced
\* rend : "raise", "None" or "path", what generate_sheet_pdf does
ProcessSingleSheetRendersAlways(read, norm, rend) ==
    IF read = Raised THEN [ret |-> "raise", calls |-> <<"read">>]
    ELSE IF read = 0 THEN [ret |-> "None", calls |-> <<"read">>]
    ELSE IF norm = Raised THEN [ret |-> "raise", calls |-> <<"read", "normalize">>]
    ELSE [ret |-> rend, calls |-> <<"read", "normalize", "render">>]

\* the body of the try block
ProcessSingleSheetBody(read, norm, rend) ==
    IF read = Raised THEN [ret |-> "raise", calls |-> <<"read">>]
    ELSE IF read = 0 THEN [ret |-> "None", calls |-> <<"read">>]
    ELSE IF norm = Raised THEN [ret |-> "raise", calls |-> <<"read", "normalize">>]
    ELSE IF norm = 0 THEN [ret |-> "None", calls |-> <<"read", "normalize">>]
    ELSE [ret |-> rend, calls |-> <<"read", "normalize", "render">>]

ProcessSingleSheetNoExcept(read, norm, rend) == ProcessSingleSheetBody(read, norm, rend)

\* try: body  except Exception: return None
ProcessSingleSheet(read, norm, rend) ==
    LET b == ProcessSingleSheetBody(read, norm, rend)
    IN  IF b.ret = "raise" THEN [ret |-> "None", calls |-> b.calls] ELSE b

NoTask == [pc |-> "none"]

NoReader == [pc |-> "none"]

NoPool == [pc |-> "none"]

NoCleaner == [pc |-> "none"]

NoProc == [pc |-> "none"]

NoDetector == [pc |-> "none"]

NoStory == [pc |-> "none"]

\* process_single_sheet runs with the collaborators it was given
TaskCall ==
    /\ task.pc = "call"
    /\ LET r == ProcessSingleSheet(task.read, task.norm, task.rend)
       IN  task' = [task EXCEPT !.pc = "returned", !.ret = r.ret, !.calls = r.calls]
    /\ UNCHANGED <<schedVars, mainVars, reader, pool, cleaner, proc, detector, story>>

ReadColumnDPlaceholderRow(sheet_name, api_ok) ==
    IF api_ok /\ content[sheet_name] > 0 THEN content[sheet_name] ELSE 1

\* read_column_d: the sheet's rows, or [] once its attempts are used up
ReadColumnD(sheet_name, api_ok) == IF api_ok THEN content[sheet_name] ELSE 0

\* what the reader handed to the task can do: any reader when the scheduler is
\* called directly, SheetsReader on the spreadsheet when main runs
ReadOutcomes(sheet_name) ==
    IF mpc = "none"
    THEN {Raised} \cup (0..MaxRows)
    ELSE {ReadColumnD(sheet_name, ok) : ok \in BOOLEAN}

\* the normalizer emits at most one block per row
NormOutcomes(read) == {Raised} \cup (0..(IF read = Raised THEN 0 ELSE read))

RendOutcomes == {"raise", "None", "path"}

\* what a call of the task function for a sheet can come back with, and
\* whether an exception was raised inside it
TaskOutcomes(sheet_name) ==
    IF processor_func = "process_single_sheet"
    THEN {[ret |-> ProcessSingleSheet(r, n, d).ret,
           raised |-> ProcessSingleSheetBody(r, n, d).ret = "raise"] :
              r \in ReadOutcomes(sheet_name), n \in {Raised} \cup (0..MaxRows),
              d \in RendOutcomes}
    ELSE {[ret |-> "path", raised |-> FALSE],
          [ret |-> "None", raised |-> FALSE],
          [ret |-> "raise", raised |-> TRUE]}

\* ------------------------------------------------------ process_sheets_parallel
Futures == 1..Len(future_to_sheet)

NumRunningSkipsFirst ==
    Cardinality({i \in Futures : i > 1 /\ fstate[i] = "running"})

\* the task bodies running in worker threads right now
NumRunning == Cardinality({i \in Futures : fstate[i] = "running"})

WorkerFreeOffByOne(running) == running < max_workers - 1

\* the pool runs at most max_workers task bodies at a time
WorkerFree(running) == running < max_workers

\* the work queue is FIFO: the next task to start is the oldest pending one
NextPending == CHOOSE i \in Futures :
                   /\ fstate[i] = "pending"
                   /\ \A j \in Futures : fstate[j] = "pending" => i <= j

ResultWaitAlwaysTimesOut(st) == Timeout + 1

\* future.result(timeout=300) on a future that as_completed has yielded
\* returns at once; on an unfinished future it would block for the timeout
ResultWait(st) == IF st = "done" THEN 0 ELSE Timeout + 1

RecordResultWipesOnFailure(res, sheet_name, st, ret) ==
    IF ResultWait(st) > Timeout THEN [results |-> <<>>, escaped |-> FALSE]
    ELSE IF ret = "raise" THEN [results |-> <<>>, escaped |-> FALSE]
    ELSE IF ret = "path"
         THEN [results |-> DictSet(res, sheet_name, ArtifactPath(sheet_name)),
               escaped |-> FALSE]
         ELSE [results |-> res, escaped |-> FALSE]

RecordResultNoExcept(res, sheet_name, st, ret) ==
    IF ResultWait(st) > Timeout THEN [results |-> res, escaped |-> TRUE]
    ELSE IF ret = "raise" THEN [results |-> res, escaped |-> TRUE]
    ELSE IF ret = "path"
         THEN [results |-> DictSet(res, sheet_name, ArtifactPath(sheet_name)),
               escaped |-> FALSE]
         ELSE [results |-> res, escaped |-> FALSE]

\* the body of the as_completed loop
RecordResult(res, sheet_name, st, ret) ==
    IF ResultWait(st) > Timeout THEN [results |-> res, escaped |-> FALSE]
    ELSE IF ret = "raise" THEN [results |-> res, escaped |-> FALSE]
    ELSE IF ret = "path"
         THEN [results |-> DictSet(res, sheet_name, ArtifactPath(sheet_name)),
               escaped |-> FALSE]
         ELSE [results |-> res, escaped |-> FALSE]

AsCompletedExhaustedAfterFirst(coll, futs) == coll # {}

\* the for loop over as_completed ends when every future has been yielded
AsCompletedExhausted(coll, futs) == coll = futs

\* leaving the with block: executor.shutdown(wait=True)
ShutdownDone == \A i \in Futures : fstate[i] = "done"

NotSheetsNever(s) == FALSE

\* not sheets: an empty sequence is falsy
NotSheets(s) == s = <<>>

\* if not sheets: return {}      else: create the pool
Enter ==
    /\ spc = "called"
    /\ IF NotSheets(sheets)
       THEN /\ spc' = "returned"
            /\ results' = <<>>
            /\ UNCHANGED pool_created
       ELSE /\ spc' = IF Len(sheets) = 0 THEN "collecting" ELSE "submitting"
            /\ results' = <<>>
            /\ pool_created' = TRUE
    /\ UNCHANGED <<sheets, processor_func, max_workers, future_to_sheet,
                   fstate, fret, fdur, fraised, collected>>
    /\ UNCHANGED <<mainVars, unitVars>>

\* one iteration of the dict comprehension: executor.submit(processor_func, sheet)
Submit ==
    /\ spc = "submitting"
    /\ LET n == Len(future_to_sheet) + 1
       IN  /\ future_to_sheet' = Append(future_to_sheet, sheets[n])
           /\ fstate' = Append(fstate, "pending")
           /\ fret' = Append(fret, "-")
           /\ fdur' = Append(fdur, 0)
           /\ fraised' = Append(fraised, FALSE)
           /\ spc' = IF n = Len(sheets) THEN "collecting" ELSE "submitting"
    /\ UNCHANGED <<sheets, processor_func, max_workers, pool_created,
                   collected, results>>
    /\ UNCHANGED <<mainVars, unitVars>>

\* a worker thread takes the oldest queued task
TaskStart ==
    /\ spc \in {"submitting", "collecting"}
    /\ \E i \in Futures : fstate[i] = "pending"
    /\ WorkerFree(NumRunning)
    /\ fstate' = [fstate EXCEPT ![NextPending] = "running"]
    /\ UNCHANGED <<sheets, processor_func, max_workers, spc, pool_created,
                   future_to_sheet, fret, fdur, fraised, collected, results>>
    /\ UNCHANGED <<mainVars, unitVars>>

\* a task body returns or raises
TaskFinish(i) ==
    /\ spc \in {"submitting", "collecting"}
    /\ fstate[i] = "running"
    /\ \E o \in TaskOutcomes(future_to_sheet[i]), d \in Durations :
          /\ fret' = [fret EXCEPT ![i] = o.ret]
          /\ fraised' = [fraised EXCEPT ![i] = o.raised]
          /\ fdur' = [fdur EXCEPT ![i] = d]
    /\ fstate' = [fstate EXCEPT ![i] = "done"]
    /\ UNCHANGED <<sheets, processor_func, max_workers, spc, pool_created,
                   future_to_sheet, collected, results>>
    /\ UNCHANGED <<mainVars, unitVars>>

\* one iteration of "for future in as_completed(future_to_sheet)"
Collect(i) ==
    /\ spc = "collecting"
    /\ fstate[i] = "done"
    /\ i \notin collected
    /\ LET r == RecordResult(results, future_to_sheet[i], fstate[i], fret[i])
       IN  /\ results' = r.results
           /\ spc' = IF r.escaped THEN "raised" ELSE "collecting"
    /\ collected' = collected \cup {i}
    /\ UNCHANGED <<sheets, processor_func, max_workers, pool_created,
                   future_to_sheet, fstate, fret, fdur, fraised>>
    /\ UNCHANGED <<mainVars, unitVars>>

\* the loop ends, the with block is left, results is returned
Return ==
    /\ spc = "collecting"
    /\ AsCompletedExhausted(collected, Futures)
    /\ ShutdownDone
    /\ spc' = "returned"
    /\ UNCHANGED <<sheets, processor_func, max_workers, pool_created,
                   future_to_sheet, fstate, fret, fdur, fraised, collected, results>>
    /\ UNCHANGED <<mainVars, unitVars>>

\* ------------------------------------------------------------------- main
Finish(code) ==
    /\ mpc' = "done"
    /\ exit_code' = code

ValidateSetupCredentialsOnly(creds, id) == creds

\* validate_setup
ValidateSetup(creds, id) == creds /\ id

\* lines 174-188: the sheets handed to the scheduler
SelectSheets(requested, names) ==
    LET Present(s) == s \in Range(names)
        chosen == IF requested # <<>>
                  THEN IF Range(requested) \ Range(names) # {}
                       THEN SelectSeq(requested, Present)
                       ELSE requested
                  ELSE names
    IN  SelectSeq(chosen, Present)

MissingSheets(requested, names) ==
    IF requested # <<>> THEN Range(requested) \ Range(names) ELSE {}

\* ThreadManager defines __init__ and process_sheets_parallel only
ThreadManagerMethods == {"__init__", "process_sheets_parallel"}

\* lines 213-216: results in requested order
PdfFiles(requested, res) ==
    LET Has(s) == s \in Keys(res)
        kept == SelectSeq(requested, Has)
    IN  [i \in 1..Len(kept) |-> DictGet(res, kept[i])]

\* what merge_sheets_to_ebook can do on a non-empty list of existing files:
\* write the output, or fail (before or after the output file appears)
MergeOutcomes ==
    {[ret |-> "path", file |-> "nonempty"],
     [ret |-> "path", file |-> "empty"],
     [ret |-> "None", file |-> "absent"],
     [ret |-> "None", file |-> "nonempty"]}

ValidateEbookExistsOnly(file) == file # "absent"

\* validate_ebook: the file exists and its size is positive
ValidateEbook(file) == file = "nonempty"

\* get_ebook_stats: the keys of the dict it returns
GetEbookStats(file, reader_ok) ==
    IF ~ValidateEbook(file) THEN {}
    ELSE IF reader_ok
         THEN {"file_path", "file_size_kb", "file_size_mb", "num_pages", "title"}
         ELSE {"file_path", "file_size_kb", "num_pages"}

\* the keys the success summary reads from ebook_stats
SummaryKeys == {"num_pages", "file_size_mb", "title"}

\* if not validate_setup(config): return 1
MainValidate ==
    /\ mpc = "start"
    /\ IF ValidateSetup(creds_exist, id_set)
       THEN mpc' = "init" /\ UNCHANGED exit_code
       ELSE Finish(1)
    /\ UNCHANGED <<args_sheets, creds_exist, id_set, sheet_names, content,
                   sheets_to_process, warnings, pdf_files, merge_calls,
                   final_file, merge_ret, ebook_stats, success_rate>>
    /\ UNCHANGED <<schedVars, unitVars>>

\* the components are built and get_spreadsheet_info is called; either may raise
MainInitialise ==
    /\ mpc = "init"
    /\ \E ok \in BOOLEAN :
          IF ok THEN mpc' = "select" /\ UNCHANGED exit_code ELSE Finish(1)
    /\ UNCHANGED <<args_sheets, creds_exist, id_set, sheet_names, content,
                   sheets_to_process, warnings, pdf_files, merge_calls,
                   final_file, merge_ret, ebook_stats, success_rate>>
    /\ UNCHANGED <<schedVars, unitVars>>

\* lines 173-188
MainSelect ==
    /\ mpc = "select"
    /\ LET chosen == SelectSheets(args_sheets, sheet_names)
       IN  /\ sheets_to_process' = chosen
           /\ warnings' = IF MissingSheets(args_sheets, sheet_names) # {}
                          THEN warnings + 1 ELSE warnings
           /\ IF chosen = <<>>
              THEN Finish(1)
              ELSE mpc' = "estimate" /\ UNCHANGED exit_code
    /\ UNCHANGED <<args_sheets, creds_exist, id_set, sheet_names, content,
                   pdf_files, merge_calls, final_file, merge_ret, ebook_stats,
                   success_rate>>
    /\ UNCHANGED <<schedVars, unitVars>>

\* lines 190-205: the estimate for more than one sheet, then the scheduler call
MainProcess ==
    /\ mpc = "estimate"
    /\ IF Len(sheets_to_process) > 1
          /\ "estimate_processing_time" \notin ThreadManagerMethods
       THEN /\ Finish(1)                       \* AttributeError, except Exception
            /\ UNCHANGED <<sheets, spc>>
       ELSE /\ mpc' = "process"
            /\ sheets' = sheets_to_process
            /\ spc' = "called"
            /\ UNCHANGED exit_code
    /\ UNCHANGED <<args_sheets, creds_exist, id_set, sheet_names, content,
                   sheets_to_process, warnings, pdf_files, merge_calls,
                   final_file, merge_ret, ebook_stats, success_rate>>
    /\ UNCHANGED <<processor_func, max_workers, pool_created, future_to_sheet,
                   fstate, fret, fdur, fraised, collected, results, unitVars>>

\* lines 207-220
MainCheckResults ==
    /\ mpc = "process"
    /\ spc \in {"returned", "raised"}
    /\ IF spc = "raised" \/ results = <<>>
       THEN Finish(1) /\ UNCHANGED pdf_files
       ELSE /\ pdf_files' = PdfFiles(sheets_to_process, results)
            /\ IF pdf_files' = <<>>
               THEN Finish(1)
               ELSE mpc' = "merge" /\ UNCHANGED exit_code
    /\ UNCHANGED <<args_sheets, creds_exist, id_set, sheet_names, content,
                   sheets_to_process, warnings, merge_calls, final_file,
                   merge_ret, ebook_stats, success_rate>>
    /\ UNCHANGED <<schedVars, unitVars>>

\* lines 232-241
MainMerge ==
    /\ mpc = "merge"
    /\ merge_calls' = merge_calls + 1
    /\ \E m \in MergeOutcomes :
          /\ final_file' = m.file
          /\ merge_ret' = m.ret
          /\ IF m.ret = "None"
             THEN Finish(1)
             ELSE mpc' = "validate" /\ UNCHANGED exit_code
    /\ UNCHANGED <<args_sheets, creds_exist, id_set, sheet_names, content,
                   sheets_to_process, warnings, pdf_files, ebook_stats,
                   success_rate>>
    /\ UNCHANGED <<schedVars, unitVars>>

\* lines 243-246
MainValidateEbook ==
    /\ mpc = "validate"
    /\ IF ValidateEbook(final_file)
       THEN mpc' = "stats" /\ UNCHANGED exit_code
       ELSE Finish(1)
    /\ UNCHANGED <<args_sheets, creds_exist, id_set, sheet_names, content,
                   sheets_to_process, warnings, pdf_files, merge_calls,
                   final_file, merge_ret, ebook_stats, success_rate>>
    /\ UNCHANGED <<schedVars, unitVars>>

\* lines 248-267: the statistics and the success summary
MainSummary ==
    /\ mpc = "stats"
    /\ \E reader_ok \in BOOLEAN :
          /\ ebook_stats' = GetEbookStats(final_file, reader_ok)
          /\ IF SummaryKeys \subseteq ebook_stats'
             THEN /\ success_rate' = <<Len(results), Len(sheets_to_process)>>
                  /\ Finish(0)
             ELSE /\ Finish(1)                 \* KeyError, except Exception
                  /\ UNCHANGED success_rate
    /\ UNCHANGED <<args_sheets, creds_exist, id_set, sheet_names, content,
                   sheets_to_process, warnings, pdf_files, merge_calls,
                   final_file, merge_ret>>
    /\ UNCHANGED <<schedVars, unitVars>>

SchedNext ==
    \/ Enter
    \/ Submit
    \/ TaskStart
    \/ \E i \in Futures : TaskFinish(i)
    \/ \E i \in Futures : Collect(i)
    \/ Return

\* two names are enough for a sequence to repeat a name or not
SchedNames == {"A/B", "A_B"}

\* process_sheets_parallel called directly on any sheet sequence
SchedInit ==
    /\ sheets \in SeqsUpTo(SchedNames, MaxSheets)
    /\ processor_func \in {"process_single_sheet", "callable"}
    /\ max_workers \in 1..MaxWorkers
    /\ spc = "called"
    /\ pool_created = FALSE
    /\ future_to_sheet = <<>>
    /\ fstate = <<>>
    /\ fret = <<>>
    /\ fdur = <<>>
    /\ fraised = <<>>
    /\ collected = {}
    /\ results = <<>>
    /\ mpc = "none"
    /\ args_sheets = <<>>
    /\ creds_exist = TRUE
    /\ id_set = TRUE
    /\ sheet_names = <<>>
    /\ content = [s \in SheetNames |-> 0]
    /\ sheets_to_process = <<>>
    /\ warnings = 0
    /\ pdf_files = <<>>
    /\ merge_calls = 0
    /\ final_file = "absent"
    /\ merge_ret = "-"
    /\ ebook_stats = {}
    /\ success_rate = <<>>
    /\ exit_code = -1
    /\ task = NoTask
    /\ reader = NoReader
    /\ pool = NoPool
    /\ cleaner = NoCleaner
    /\ proc = NoProc
    /\ detector = NoDetector
    /\ story = NoStory

SchedSpec == SchedInit /\ [][SchedNext]_vars

Next ==
    \/ MainValidate
    \/ MainInitialise
    \/ MainSelect
    \/ MainProcess
    \/ MainCheckResults
    \/ MainMerge
    \/ MainValidateEbook
    \/ MainSummary
    \/ Enter
    \/ Submit
    \/ TaskStart
    \/ \E i \in Futures : TaskFinish(i)
    \/ \E i \in Futures : Collect(i)
    \/ Return

\* the tabs of a spreadsheet have distinct titles
Distinct(s) == \A i, j \in 1..Len(s) : i # j => s[i] # s[j]

\* main started from the command line
Init ==
    /\ mpc = "start"
    /\ args_sheets \in SeqsUpTo(SheetNames, MaxSheets)
    /\ creds_exist \in BOOLEAN
    /\ id_set \in BOOLEAN
    /\ sheet_names \in {s \in SeqsUpTo(SheetNames, Cardinality(SheetNames)) : Distinct(s)}
    /\ content \in [SheetNames -> 0..MaxRows]
    /\ max_workers \in 1..MaxWorkers
    /\ processor_func = "process_single_sheet"
    /\ sheets = <<>>
    /\ spc = "idle"
    /\ pool_created = FALSE
    /\ future_to_sheet = <<>>
    /\ fstate = <<>>
    /\ fret = <<>>
    /\ fdur = <<>>
    /\ fraised = <<>>
    /\ collected = {}
    /\ results = <<>>
    /\ sheets_to_process = <<>>
    /\ warnings = 0
    /\ pdf_files = <<>>
    /\ merge_calls = 0
    /\ final_file = "absent"
    /\ merge_ret = "-"
    /\ ebook_stats = {}
    /\ success_rate = <<>>
    /\ exit_code = -1
    /\ task = NoTask
    /\ reader = NoReader
    /\ pool = NoPool
    /\ cleaner = NoCleaner
    /\ proc = NoProc
    /\ detector = NoDetector
    /\ story = NoStory

Spec == Init /\ [][Next]_vars

TaskNext == TaskCall

\* process_single_sheet called on its own with any reader, normalizer, renderer
TaskInit ==
    /\ task \in [pc : {"call"}, sheet_name : SheetNames,
                 read : {Raised} \cup (0..MaxRows),
                 norm : {Raised} \cup (0..MaxRows),
                 rend : RendOutcomes, ret : {"-"}, calls : {<<>>}]
    /\ sheets = <<>>
    /\ processor_func = "process_single_sheet"
    /\ max_workers = 1
    /\ spc = "idle"
    /\ pool_created = FALSE
    /\ future_to_sheet = <<>>
    /\ fstate = <<>>
    /\ fret = <<>>
    /\ fdur = <<>>
    /\ fraised = <<>>
    /\ collected = {}
    /\ results = <<>>
    /\ mpc = "none"
    /\ args_sheets = <<>>
    /\ creds_exist = TRUE
    /\ id_set = TRUE
    /\ sheet_names = <<>>
    /\ content = [s \in SheetNames |-> 0]
    /\ sheets_to_process = <<>>
    /\ warnings = 0
    /\ pdf_files = <<>>
    /\ merge_calls = 0
    /\ final_file = "absent"
    /\ merge_ret = "-"
    /\ ebook_stats = {}
    /\ success_rate = <<>>
    /\ exit_code = -1
    /\ reader = NoReader
    /\ pool = NoPool
    /\ cleaner = NoCleaner
    /\ proc = NoProc
    /\ detector = NoDetector
    /\ story = NoStory

TaskSpec == TaskInit /\ [][TaskNext]_vars

\* the scheduler with the fairness of a running thread pool: the calling
\* thread and the workers keep making progress, and every task body that
\* was started finishes
SchedLiveInit ==
    /\ SchedInit
    /\ Len(sheets) <= MaxLiveSheets

SchedLiveSpec ==
    /\ SchedLiveInit
    /\ [][SchedNext]_vars
    /\ WF_vars(Enter)
    /\ WF_vars(Submit)
    /\ WF_vars(TaskStart)
    /\ \A i \in 1..MaxLiveSheets : WF_vars(i \in Futures /\ TaskFinish(i))
    /\ \A i \in 1..MaxLiveSheets : WF_vars(i \in Futures /\ Collect(i))
    /\ WF_vars(Return)

\* ---------------------------------------------------------------- read_column_d
\* no scheduler call and no run of main is under way
NoRun ==
    /\ sheets = <<>>
    /\ processor_func = "process_single_sheet"
    /\ max_workers = 1
    /\ spc = "idle"
    /\ pool_created = FALSE
    /\ future_to_sheet = <<>>
    /\ fstate = <<>>
    /\ fret = <<>>
    /\ fdur = <<>>
    /\ fraised = <<>>
    /\ collected = {}
    /\ results = <<>>
    /\ mpc = "none"
    /\ args_sheets = <<>>
    /\ creds_exist = TRUE
    /\ id_set = TRUE
    /\ sheet_names = <<>>
    /\ content = [s \in SheetNames |-> 0]
    /\ sheets_to_process = <<>>
    /\ warnings = 0
    /\ pdf_files = <<>>
    /\ merge_calls = 0
    /\ final_file = "absent"
    /\ merge_ret = "-"
    /\ ebook_stats = {}
    /\ success_rate = <<>>
    /\ exit_code = -1

\* max_retries = 3
MaxRetries == 3

\* random.uniform(1, 3), in whole seconds
Jitter == 1..3

DelayWithoutAttempt(jitter, attempt) == jitter + 2

\* delay = random.uniform(1, 3) + (attempt * 2)
Delay(jitter, attempt) == jitter + (attempt * 2)

\* what the API call of one attempt does: it raises, or it returns the rows
ApiOutcomes == {"raise", "values"}

ExceptHandlerReraisesLast(attempt) ==
    IF attempt = MaxRetries - 1 THEN "raise" ELSE "continue"

\* except Exception: return [] on the last attempt, continue otherwise
ExceptHandler(attempt) ==
    IF attempt = MaxRetries - 1 THEN "return" ELSE "continue"

\* one iteration of  for attempt in range(max_retries)
ReadAttempt ==
    /\ reader.pc = "loop"
    /\ reader.attempt < MaxRetries
    /\ \E jitter \in Jitter, api \in ApiOutcomes :
          LET a == reader.attempt
              slept == IF a > 0
                       THEN Append(reader.slept, Delay(jitter, a))
                       ELSE reader.slept
              tried == Append(reader.calls, api)
              h == ExceptHandler(a)
          IN  reader' =
                IF api = "values"
                THEN [reader EXCEPT !.pc = "returned", !.slept = slept,
                                    !.calls = tried, !.ret = reader.rows]
                ELSE IF h = "continue"
                THEN [reader EXCEPT !.attempt = a + 1, !.slept = slept,
                                    !.calls = tried]
                ELSE IF h = "return"
                THEN [reader EXCEPT !.pc = "returned", !.slept = slept,
                                    !.calls = tried, !.ret = 0]
                ELSE [reader EXCEPT !.pc = "raised", !.slept = slept,
                                    !.calls = tried]
    /\ UNCHANGED <<schedVars, mainVars, task, pool, cleaner, proc, detector, story>>

ReadNext == ReadAttempt

\* read_column_d called for a sheet holding rows non-blank cells in column D
ReadInit ==
    /\ NoRun
    /\ task = NoTask
    /\ reader \in [pc : {"loop"}, sheet_name : SheetNames, rows : 0..MaxRows,
                   attempt : {0}, slept : {<<>>}, calls : {<<>>}, ret : {0}]
    /\ pool = NoPool
    /\ cleaner = NoCleaner
    /\ proc = NoProc
    /\ detector = NoDetector
    /\ story = NoStory

ReadSpec == ReadInit /\ [][ReadNext]_vars

\* ------------------------------------------------------------ the pool size
MaxThreads == 8

\* thread counts a user can write after --threads or in MAX_THREADS
ThreadCounts == (0 - 1)..MaxThreads

\* os.cpu_count(): a positive number, or None (0 here: both are falsy)
CpuCounts == 0..MaxThreads

Min(a, b) == IF a <= b THEN a ELSE b

\* 'max_threads': int(os.getenv('MAX_THREADS', '4'))
LoadConfig(env_set, env) == IF env_set THEN env ELSE 4

\* if args.threads: config['max_threads'] = args.threads
\* (args.threads is None when the option is absent: 0 here, both are falsy)
OverrideThreads(max_threads, args_threads) ==
    IF args_threads # 0 THEN args_threads ELSE max_threads

\* ThreadManager.__init__; the argument is <<>> for None, <<n>> for a number
ThreadManagerInit(workers, cpu_count) ==
    IF workers = <<>>
    THEN Min(IF cpu_count # 0 THEN cpu_count ELSE 4, 6)
    ELSE workers[1]

\* ThreadPoolExecutor(max_workers=n) raises ValueError unless n > 0
ExecutorAccepts(n) == n > 0

PoolLoadConfig ==
    /\ pool.pc = "start"
    /\ pool' = [pool EXCEPT !.pc = "loaded",
                            !.max_threads = LoadConfig(pool.env_set, pool.env)]
    /\ UNCHANGED <<schedVars, mainVars, task, reader, cleaner, proc, detector, story>>

PoolOverride ==
    /\ pool.pc = "loaded"
    /\ pool' = [pool EXCEPT !.pc = "configured",
                            !.max_threads = OverrideThreads(pool.max_threads,
                                                            pool.args_threads)]
    /\ UNCHANGED <<schedVars, mainVars, task, reader, cleaner, proc, detector, story>>

\* thread_manager = ThreadManager(max_workers=config['max_threads'])
PoolConstruct ==
    /\ pool.pc = "configured"
    /\ pool' = [pool EXCEPT !.pc = "manager",
                            !.max_workers = ThreadManagerInit(<<pool.max_threads>>,
                                                              pool.cpu_count)]
    /\ UNCHANGED <<schedVars, mainVars, task, reader, cleaner, proc, detector, story>>

\* with ThreadPoolExecutor(max_workers=self.max_workers) as executor
PoolCreate ==
    /\ pool.pc = "manager"
    /\ pool' = IF ExecutorAccepts(pool.max_workers)
               THEN [pool EXCEPT !.pc = "created", !.size = pool.max_workers]
               ELSE [pool EXCEPT !.pc = "error"]
    /\ UNCHANGED <<schedVars, mainVars, task, reader, cleaner, proc, detector, story>>

PoolNext ==
    \/ PoolLoadConfig
    \/ PoolOverride
    \/ PoolConstruct
    \/ PoolCreate

\* main configures the thread count from MAX_THREADS and --threads
PoolInit ==
    /\ NoRun
    /\ task = NoTask
    /\ reader = NoReader
    /\ pool \in [pc : {"start"}, env_set : BOOLEAN, env : ThreadCounts,
                 args_threads : ThreadCounts, cpu_count : CpuCounts,
                 max_threads : {0}, max_workers : {0}, size : {0}]
    /\ cleaner = NoCleaner
    /\ proc = NoProc
    /\ detector = NoDetector
    /\ story = NoStory

PoolSpec == PoolInit /\ [][PoolNext]_vars

\* -------------------------------------------------------- clean_vietnamese_text
\* A text is a sequence of characters; a character outside ASCII is written
\* by its code point.
MaxTextLen == 5

\* the characters the input texts are made of: a letter, the space, the dot,
\* a letter followed by a combining acute accent, the en dash
TextChars == {"a", " ", ".", "e", "U+0301", "U+2013"}

RECURSIVE Replace(_, _, _)
\* str.replace(old, new): the non-overlapping occurrences, left to right
Replace(text, old, new) ==
    IF Len(text) < Len(old) THEN text
    ELSE IF SubSeq(text, 1, Len(old)) = old
         THEN new \o Replace(SubSeq(text, Len(old) + 1, Len(text)), old, new)
         ELSE <<Head(text)>> \o Replace(Tail(text), old, new)

\* unicodedata.normalize('NFC', text): e + combining acute composes to U+00E9
NormalizeNFC(text) == Replace(text, <<"e", "U+0301">>, <<"U+00E9">>)

Whitespace == {" ", "\n"}

RECURSIVE LStrip(_)
LStrip(text) ==
    IF text # <<>> /\ Head(text) \in Whitespace THEN LStrip(Tail(text)) ELSE text

RECURSIVE RStrip(_)
RStrip(text) ==
    IF text # <<>> /\ text[Len(text)] \in Whitespace
    THEN RStrip(SubSeq(text, 1, Len(text) - 1))
    ELSE text

\* str.strip()
Strip(text) == RStrip(LStrip(text))

\* the dict the literal at lines 26-34 evaluates to, in insertion order: the
\* two double-quote entries are one key, and the text between the two
\* triple-quote tokens is one key
Replacements ==
    << <<<<"\"">>, <<"\"">>>>,
       <<<<":", " ", "\"", "'", "\"", ",", "\n", " ", " ", " ", " ", " ", " ",
           " ", " ", " ", " ", " ", " ">>, <<"'">>>>,
       <<<<"U+2013">>, <<"U+2014">>>>,
       <<<<".", ".", ".">>, <<"U+2026">>>>,
       <<<<" ", " ">>, <<" ">>>> >>

RECURSIVE ApplyReplacements(_, _)
\* for old, new in replacements.items(): text = text.replace(old, new)
ApplyReplacements(text, i) ==
    IF i > Len(Replacements) THEN text
    ELSE ApplyReplacements(Replace(text, Replacements[i][1], Replacements[i][2]),
                           i + 1)

CleanVietnameseText(text) ==
    IF text = <<>> THEN <<>>
    ELSE Strip(ApplyReplacements(NormalizeNFC(text), 1))

\* clean_vietnamese_text(text)
CleanOnce ==
    /\ cleaner.pc = "start"
    /\ cleaner' = [cleaner EXCEPT !.pc = "once",
                                  !.once = CleanVietnameseText(cleaner.text)]
    /\ UNCHANGED <<schedVars, mainVars, task, reader, pool, proc, detector, story>>

\* clean_vietnamese_text applied to its own output
CleanTwice ==
    /\ cleaner.pc = "once"
    /\ cleaner' = [cleaner EXCEPT !.pc = "twice",
                                  !.twice = CleanVietnameseText(cleaner.once)]
    /\ UNCHANGED <<schedVars, mainVars, task, reader, pool, proc, detector, story>>

CleanNext == CleanOnce \/ CleanTwice

CleanInit ==
    /\ NoRun
    /\ task = NoTask
    /\ reader = NoReader
    /\ pool = NoPool
    /\ cleaner \in [pc : {"start"}, text : SeqsUpTo(TextChars, MaxTextLen),
                    once : {<<>>}, twice : {<<>>}]
    /\ proc = NoProc
    /\ detector = NoDetector
    /\ story = NoStory

CleanSpec == CleanInit /\ [][CleanNext]_vars

\* ---------------------------------------------------------- detect_content_type
MaxDetectLen == 4

\* a run of n copies of one character
Fill(c, n) == [i \in 1..n |-> c]

\* the characters the classified texts are made of: the quotation mark, the
\* em dash, an upper-case letter, the letters of the keyword U+006D U+1EE5
\* U+0063, the space
DetectChars == {"\"", "U+2014", "A", "m", "U+1EE5", "c", " "}

\* the short texts over DetectChars and two long upper-case ones
DetectTexts ==
    SeqsUpTo(DetectChars, MaxDetectLen) \cup {Fill("A", n) : n \in 99..100}

UpperChars == {"A"}

LowerChars == {"a", "e", "m", "c", "U+00E9", "U+1EE5"}

\* str.lower(), character by character
Lower(text) == [i \in 1..Len(text) |-> IF text[i] = "A" THEN "a" ELSE text[i]]

\* str.isupper(): there is a cased character and no cased one is lower-case
IsUpper(text) ==
    /\ \E i \in 1..Len(text) : text[i] \in UpperChars
    /\ \A i \in 1..Len(text) : text[i] \notin LowerChars

\* sub in text
Contains(text, sub) ==
    \E i \in 0..(Len(text) - Len(sub)) : SubSeq(text, i + 1, i + Len(sub)) = sub

\* text.startswith(prefix)
StartsWith(text, prefix) ==
    Len(text) >= Len(prefix) /\ SubSeq(text, 1, Len(prefix)) = prefix

\* the keywords of line 55, each a sequence of characters
Keywords ==
    {<<"c", "h", "U+01B0", "U+01A1", "n", "g">>,
     <<"p", "h", "U+1EA7", "n">>,
     <<"m", "U+1EE5", "c">>}

DetectContentTypeHeaderFirst(text) ==
    IF text = <<>> THEN "empty"
    ELSE LET text_clean == Strip(text)
         IN  IF /\ Len(text_clean) < 100
                /\ \/ IsUpper(text_clean)
                   \/ \E keyword \in Keywords : Contains(Lower(text_clean), keyword)
             THEN "header"
             ELSE IF \/ Contains(text_clean, <<"\"">>)
                     \/ StartsWith(text_clean, <<"\"">>)
                     \/ StartsWith(text_clean, <<"U+2014">>)
                  THEN "dialog"
                  ELSE "paragraph"

\* detect_content_type
DetectContentType(text) ==
    IF text = <<>> THEN "empty"
    ELSE LET text_clean == Strip(text)
         IN  IF \/ Contains(text_clean, <<"\"">>)
                \/ StartsWith(text_clean, <<"\"">>)
                \/ StartsWith(text_clean, <<"U+2014">>)
             THEN "dialog"
             ELSE IF /\ Len(text_clean) < 100
                     /\ \/ IsUpper(text_clean)
                        \/ \E keyword \in Keywords :
                              Contains(Lower(text_clean), keyword)
                  THEN "header"
                  ELSE "paragraph"

\* detect_content_type(text)
Detect ==
    /\ detector.pc = "start"
    /\ detector' = [detector EXCEPT !.pc = "done",
                                    !.kind = DetectContentType(detector.text)]
    /\ UNCHANGED <<schedVars, mainVars, task, reader, pool, cleaner, proc, story>>

DetectNext == Detect

DetectInit ==
    /\ NoRun
    /\ task = NoTask
    /\ reader = NoReader
    /\ pool = NoPool
    /\ cleaner = NoCleaner
    /\ proc = NoProc
    /\ detector \in [pc : {"start"}, text : DetectTexts, kind : {"-"}]
    /\ story = NoStory

DetectSpec == DetectInit /\ [][DetectNext]_vars

\* -------------------------------------------------------- process_sheet_content
MaxCells == 2

MaxShort == 2

\* self.paragraph_min_length = 10
ParagraphMinLength == 10

\* a cell of the input list: a str, None, or an int
StrCell(t) == [kind |-> "str", text |-> t, value |-> 0]

NoneCell == [kind |-> "None", text |-> <<>>, value |-> 0]

IntCell(n) == [kind |-> "int", text |-> <<>>, value |-> n]

\* texts around the minimum length: a run of letters, after an optional
\* space and before an optional "...", and the empty and the blank text
CellTexts ==
    {<<>>, <<" ">>} \cup
    {pre \o Fill("a", n) \o post :
        pre \in {<<>>, <<" ">>}, post \in {<<>>, <<".", ".", ".">>},
        n \in (ParagraphMinLength - MaxShort)..ParagraphMinLength}

Cells == {StrCell(t) : t \in CellTexts} \cup {NoneCell, IntCell(0), IntCell(7)}

\* not raw_text: None, the empty str and 0 are falsy
Falsy(cell) ==
    \/ cell.kind = "None"
    \/ cell.kind = "str" /\ cell.text = <<>>
    \/ cell.kind = "int" /\ cell.value = 0

TooShortInclusive(cleaned_text) == Len(cleaned_text) <= ParagraphMinLength

\* len(cleaned_text) < self.paragraph_min_length
TooShort(cleaned_text) == Len(cleaned_text) < ParagraphMinLength

MakeBlockCountsFromOne(i, raw_text, cleaned_text) ==
    [type |-> DetectContentType(cleaned_text), content |-> cleaned_text,
     original_index |-> i + 1, original_length |-> Len(raw_text)]

\* the dict of lines 77-82
MakeBlock(i, raw_text, cleaned_text) ==
    [type |-> DetectContentType(cleaned_text), content |-> cleaned_text,
     original_index |-> i, original_length |-> Len(raw_text)]

\* the body of the for loop for the cell at index i (from 0): the cell is
\* skipped, or .strip() is missing on it (AttributeError), or a block is made
RowOutcome(i, cell) ==
    IF Falsy(cell) THEN [act |-> "continue"]
    ELSE IF cell.kind # "str" THEN [act |-> "raise"]
    ELSE IF Strip(cell.text) = <<>> THEN [act |-> "continue"]
    ELSE LET cleaned_text == CleanVietnameseText(cell.text)
         IN  IF TooShort(cleaned_text) THEN [act |-> "continue"]
             ELSE [act |-> "append",
                   block |-> MakeBlock(i, cell.text, cleaned_text)]

\* if not raw_content_list: warn and return []
ProcEnter ==
    /\ proc.pc = "called"
    /\ proc' = IF proc.raw_content_list = <<>>
               THEN [proc EXCEPT !.pc = "returned", !.log = <<"warning">>]
               ELSE [proc EXCEPT !.pc = "loop"]
    /\ UNCHANGED <<schedVars, mainVars, task, reader, pool, cleaner, detector,
                   story>>

\* one iteration of  for i, raw_text in enumerate(raw_content_list)
ProcRow ==
    /\ proc.pc = "loop"
    /\ proc.i < Len(proc.raw_content_list)
    /\ LET r == RowOutcome(proc.i, proc.raw_content_list[proc.i + 1])
       IN  proc' =
             IF r.act = "raise" THEN [proc EXCEPT !.pc = "raised"]
             ELSE IF r.act = "continue" THEN [proc EXCEPT !.i = proc.i + 1]
             ELSE [proc EXCEPT !.i = proc.i + 1,
                               !.processed_blocks = Append(@, r.block)]
    /\ UNCHANGED <<schedVars, mainVars, task, reader, pool, cleaner, detector,
                   story>>

\* the loop is over: the count is logged and processed_blocks returned
ProcReturn ==
    /\ proc.pc = "loop"
    /\ proc.i = Len(proc.raw_content_list)
    /\ proc' = [proc EXCEPT !.pc = "returned", !.log = Append(@, "info")]
    /\ UNCHANGED <<schedVars, mainVars, task, reader, pool, cleaner, detector,
                   story>>

ProcNext ==
    \/ ProcEnter
    \/ ProcRow
    \/ ProcReturn

\* process_sheet_content called with any list of cells
ProcInit ==
    /\ NoRun
    /\ task = NoTask
    /\ reader = NoReader
    /\ pool = NoPool
    /\ cleaner = NoCleaner
    /\ proc \in [pc : {"called"}, raw_content_list : SeqsUpTo(Cells, MaxCells),
                 i : {0}, processed_blocks : {<<>>}, log : {<<>>}]
    /\ detector = NoDetector
    /\ story = NoStory

ProcSpec == ProcInit /\ [][ProcNext]_vars

\* ------------------------------------------------------------------ _build_story
MaxBlocks == 2

\* the styles _create_business_styles adds
StyleNames == {"BusinessChapter", "BusinessBody", "BusinessDialog", "BusinessFirst"}

\* get_style: the named style, BusinessBody for an unknown name
GetStyle(style_name) ==
    IF style_name \in StyleNames THEN style_name ELSE "BusinessBody"

\* lines 96-99: the style of a block
BlockStyle(content_type) ==
    IF content_type = "dialog"
    THEN GetStyle("BusinessDialog")
    ELSE GetStyle("BusinessBody")

\* a content block as _build_story sees it: its type and whether its content
\* is blank
StoryBlocks == [type : {"dialog", "header", "paragraph", "empty"}, blank : BOOLEAN]

\* lines 84-87: the chapter title, when the sheet name looks like one
StoryTitle ==
    /\ story.pc = "called"
    /\ story' = [story EXCEPT
                   !.pc = "loop",
                   !.story = IF story.is_chapter_title
                             THEN <<[flowable |-> "Paragraph", of |-> "sheet_name",
                                     style |-> GetStyle("BusinessChapter")],
                                    [flowable |-> "Spacer", of |-> "sheet_name",
                                     style |-> "-"]>>
                             ELSE <<>>]
    /\ UNCHANGED <<schedVars, mainVars, task, reader, pool, cleaner, proc,
                   detector>>

\* one iteration of  for block in content_blocks
StoryBlock ==
    /\ story.pc = "loop"
    /\ story.i < Len(story.content_blocks)
    /\ LET block == story.content_blocks[story.i + 1]
       IN  story' =
             IF block.blank THEN [story EXCEPT !.i = story.i + 1]
             ELSE [story EXCEPT
                     !.i = story.i + 1,
                     !.story = @ \o <<[flowable |-> "Paragraph", of |-> block.type,
                                       style |-> BlockStyle(block.type)],
                                      [flowable |-> "Spacer", of |-> block.type,
                                       style |-> "-"]>>]
    /\ UNCHANGED <<schedVars, mainVars, task, reader, pool, cleaner, proc,
                   detector>>

StoryReturn ==
    /\ story.pc = "loop"
    /\ story.i = Len(story.content_blocks)
    /\ story' = [story EXCEPT !.pc = "returned"]
    /\ UNCHANGED <<schedVars, mainVars, task, reader, pool, cleaner, proc,
                   detector>>

StoryNext ==
    \/ StoryTitle
    \/ StoryBlock
    \/ StoryReturn

\* _build_story called with any sheet name and any list of blocks
StoryInit ==
    /\ NoRun
    /\ task = NoTask
    /\ reader = NoReader
    /\ pool = NoPool
    /\ cleaner = NoCleaner
    /\ proc = NoProc
    /\ detector = NoDetector
    /\ story \in [pc : {"called"}, is_chapter_title : BOOLEAN,
                  content_blocks : SeqsUpTo(StoryBlocks, MaxBlocks),
                  i : {0}, story : {<<>>}]

StorySpec == StoryInit /\ [][StoryNext]_vars

\* ------------------------------------------------------------------ claims
NoTaskFailed == \A i \in Futures : fret[i] = "path"

Artifacts(requested) == [i \in 1..Len(requested) |-> ArtifactPath(requested[i])]

\* C1: whatever the completion order, main hands the merge stage the artifacts
\* of the requested sheets in requested order (requested A, B, C gives chapters
\* A, B, C): here for the runs in which no sheet task failed.
C1_MergeListFollowsRequest ==
    (mpc = "done" /\ sheets_to_process # <<>> /\ NoTaskFailed)
        => /\ merge_calls = 1
           /\ pdf_files = Artifacts(sheets_to_process)

\* C2: a task that raises or returns nothing neither cancels nor drops a
\* sibling: when process_sheets_parallel returns, one task per submitted sheet
\* has run to completion and every sheet whose task returned a path is a key
\* of the mapping.
C2_FailureSparesSiblings ==
    spc = "returned"
        => /\ Len(future_to_sheet) = Len(sheets)
           /\ \A i \in Futures :
                 /\ fstate[i] = "done"
                 /\ fret[i] = "path" => future_to_sheet[i] \in Keys(results)

C2_Witness ==
    /\ spc = "returned"
    /\ \E i, j, k \in Futures :
          /\ fret[i] = "raise"
          /\ fret[j] = "None"
          /\ fret[k] = "path"
          /\ future_to_sheet[k] \notin {future_to_sheet[i], future_to_sheet[j]}
          /\ future_to_sheet[k] \in Keys(results)

\* C3: process_sheets_parallel returns only when every submitted task has
\* finished and its outcome has been collected.
C3_NoPartialReturn ==
    spc = "returned"
        => \A i \in 1..Len(sheets) :
              /\ i \in Futures
              /\ fstate[i] \notin {"pending", "running"}
              /\ i \in collected

C3_Witness ==
    /\ spc = "returned"
    /\ Len(sheets) >= 3
    /\ max_workers = 1
    /\ collected = 1..Len(sheets)

\* C4: when every task body finishes, every submitted task is eventually
\* started and process_sheets_parallel eventually returns, with one task
\* per element of the sheet sequence.
C4_EventuallyReturns ==
    <>(/\ spc = "returned"
       /\ Len(future_to_sheet) = Len(sheets)
       /\ \A i \in Futures : fstate[i] = "done")

C4_Witness ==
    /\ spc = "returned"
    /\ Len(sheets) > max_workers
    /\ \E i, j \in Futures : i # j /\ future_to_sheet[i] = future_to_sheet[j]
    /\ \A i \in Futures : fstate[i] = "done"

\* C5: a task that ran longer than the 300 unit budget counts as a failure of
\* its sheet: the returned mapping lacks a sheet whose tasks all overran.
C5_OverrunIsFailure ==
    spc = "returned"
        => \A i \in Futures :
              (\A j \in Futures :
                   future_to_sheet[j] = future_to_sheet[i] => fdur[j] > Timeout)
                  => future_to_sheet[i] \notin Keys(results)

\* C6: the keys of the mapping are names of the input sequence and no name
\* has two entries, duplicates in the input included.
C6_KeysAreDistinctInputNames ==
    /\ Keys(results) \subseteq Range(sheets)
    /\ \A i, j \in 1..Len(results) : results[i][1] = results[j][1] => i = j

C6_Witness ==
    /\ spc = "returned"
    /\ \E i, j \in Futures :
          /\ i # j
          /\ future_to_sheet[i] = future_to_sheet[j]
          /\ fret[i] = "path"
          /\ fret[j] = "path"
          /\ future_to_sheet[i] \in Keys(results)

\* C7: one task is submitted per distinct sheet name, so the number of
\* submitted tasks never exceeds the number of distinct names.
C7_OneTaskPerDistinctName ==
    Len(future_to_sheet) <= Cardinality(Range(sheets))

\* C8: no exception leaves process_single_sheet and no exception of a task
\* function leaves process_sheets_parallel.
C8_NoExceptionEscapes ==
    /\ spc # "raised"
    /\ processor_func = "process_single_sheet"
           => \A i \in Futures : fret[i] # "raise"

C8_Witness ==
    /\ spc = "returned"
    /\ processor_func = "process_single_sheet"
    /\ \E i \in Futures :
          /\ fraised[i]
          /\ fret[i] = "None"
          /\ i \in collected
          /\ future_to_sheet[i] \notin Keys(results)

\* C9: process_single_sheet returns the renderer's path exactly when the
\* reader returned rows, the normalizer produced blocks and the renderer
\* succeeded, returns nothing otherwise, and calls read, normalize, render
\* in that order, stopping at the first that produced nothing.
C9_PathIffAllStagesSucceed ==
    task.pc = "returned"
        => /\ task.ret = "path"
                  <=> (task.read >= 1 /\ task.norm >= 1 /\ task.rend = "path")
           /\ task.ret \in {"path", "None"}
           /\ "render" \in Range(task.calls) <=> (task.read >= 1 /\ task.norm >= 1)
           /\ "normalize" \in Range(task.calls) <=> task.read >= 1
           /\ task.calls = SubSeq(<<"read", "normalize", "render">>, 1, Len(task.calls))

C9_Witness ==
    /\ task.pc = "returned"
    /\ task.read >= 1
    /\ task.norm = 0
    /\ task.rend = "path"
    /\ task.ret = "None"
    /\ task.calls = <<"read", "normalize">>

\* C10: three sheets requested, B without rows, A and C rendered: the mapping
\* holds A and C, main merges them, returns 0 and reports 2/3 sheets.
C10_PartialFailureSucceeds ==
    (/\ mpc = "done"
     /\ sheets_to_process = <<"A", "B", "C">>
     /\ content["B"] = 0
     /\ content["A"] > 0
     /\ content["C"] > 0
     /\ \A i \in Futures : future_to_sheet[i] \in {"A", "C"} => fret[i] = "path")
        => /\ Keys(results) = {"A", "C"}
           /\ merge_calls = 1
           /\ exit_code = 0
           /\ success_rate = <<2, 3>>

\* C11: when every sheet handed to the scheduler has no rows for the reader,
\* main ends with a non-zero status, merge_sheets_to_ebook is never called and
\* no final ebook exists.
C11_TotalFailureNoMerge ==
    (/\ mpc = "done"
     /\ sheets_to_process # <<>>
     /\ \A s \in Range(sheets_to_process) : content[s] = 0)
        => /\ exit_code = 1
           /\ merge_calls = 0
           /\ merge_ret = "-"
           /\ final_file = "absent"

\* the one requested sheet was read, had no rows, and the run ended
C11_Witness ==
    /\ mpc = "done"
    /\ Len(sheets_to_process) = 1
    /\ content[sheets_to_process[1]] = 0
    /\ spc = "returned"
    /\ Len(future_to_sheet) = 1
    /\ fstate[1] = "done"
    /\ fret[1] = "None"
    /\ results = <<>>
    /\ exit_code = 1
    /\ merge_calls = 0
\* C12: whenever main ends with a non-zero status, no final ebook file
\* written by the run is left in the output directory.
C12_NoFileLeftOnFailure ==
    (mpc = "done" /\ exit_code # 0) => final_file = "absent"

\* C13: when get_ebook_stats falls back to its size-only dict for a valid
\* ebook, main still ends with status 0.
C13_StatsFallbackSucceeds ==
    (/\ mpc = "done"
     /\ final_file = "nonempty"
     /\ ebook_stats = GetEbookStats("nonempty", FALSE))
        => exit_code = 0

\* C14: main returns 0 only after a merge whose output exists and is
\* non-empty, and every fatal condition (invalid setup, no usable sheet, empty
\* result mapping, empty merge list, merge failure, invalid output) ends in 1.
C14_ZeroOnlyForValidEbook ==
    /\ exit_code = 0 =>
          /\ mpc = "done"
          /\ merge_calls = 1
          /\ merge_ret = "path"
          /\ final_file = "nonempty"
    /\ (/\ mpc = "done"
        /\ \/ ~creds_exist
           \/ ~id_set
           \/ sheets_to_process = <<>>
           \/ results = <<>>
           \/ pdf_files = <<>>
           \/ merge_ret = "None"
           \/ final_file # "nonempty")
          => exit_code = 1

\* a run that merged one artifact into a non-empty ebook and returned 0
C14_Witness ==
    /\ mpc = "done"
    /\ exit_code = 0
    /\ Len(pdf_files) = 1
    /\ merge_ret = "path"
    /\ final_file = "nonempty"

\* C15: with the credentials file missing or the spreadsheet id empty, main
\* returns 1 straight from the setup check: the components are never built,
\* the metadata is never read and nothing reaches the scheduler.
C15_InvalidSetupAbortsFirst ==
    (~creds_exist \/ ~id_set)
        => /\ mpc \in {"start", "done"}
           /\ mpc = "done" => exit_code = 1
           /\ sheets_to_process = <<>>
           /\ spc = "idle"
           /\ ~pool_created
           /\ future_to_sheet = <<>>

\* the credentials are there, the spreadsheet id is not, and main has returned
C15_Witness ==
    /\ creds_exist
    /\ ~id_set
    /\ mpc = "done"
    /\ exit_code = 1
\* C16: read_column_d never raises; it calls the API at most 3 times, every
\* call but the last one made has raised, and when the third call has raised
\* it returns the empty list.
C16_ReaderRetriesThenEmpty ==
    reader.pc # "none" =>
       /\ reader.pc # "raised"
       /\ Len(reader.calls) <= 3
       /\ \A i \in 1..(Len(reader.calls) - 1) : reader.calls[i] = "raise"
       /\ reader.pc = "loop" => Len(reader.calls) < 3
       /\ (/\ Len(reader.calls) = 3
           /\ reader.calls[3] = "raise") => reader.pc = "returned" /\ reader.ret = 0
       /\ reader.pc = "returned" =>
             reader.ret = (IF reader.calls[Len(reader.calls)] = "raise"
                           THEN 0 ELSE reader.rows)

\* three API calls raised on a sheet that has rows, and [] came back
C16_Witness ==
    /\ reader.pc = "returned"
    /\ reader.rows > 0
    /\ reader.calls = <<"raise", "raise", "raise">>
    /\ Len(reader.slept) = 2
    /\ reader.ret = 0
\* C17: two tasks of one call that run at the same time for different sheet
\* names write to different artifact paths.
C17_RunningTasksOwnTheirPaths ==
    \A i, j \in Futures :
        (/\ processor_func = "process_single_sheet"
         /\ fstate[i] = "running"
         /\ fstate[j] = "running"
         /\ future_to_sheet[i] # future_to_sheet[j])
            => ArtifactPath(future_to_sheet[i]) # ArtifactPath(future_to_sheet[j])
\* C18: for every thread count given by --threads or MAX_THREADS the pool is
\* created, with min(requested count, available parallelism, 6) workers, and
\* that is at least 1.
C18_PoolSizeIsCappedMin ==
    pool.pc \in {"created", "error"} =>
       /\ pool.pc = "created"
       /\ pool.size >= 1
       /\ pool.size = Min(Min(pool.max_threads,
                              IF pool.cpu_count # 0 THEN pool.cpu_count ELSE 4), 6)
\* C19: called with an empty sheet sequence, process_sheets_parallel returns
\* the empty mapping in its first step: no pool is created and the task
\* function is never submitted.
C19_EmptyInputReturnsAtOnce ==
    (sheets = <<>> /\ spc \notin {"idle", "called"})
        => /\ spc = "returned"
           /\ results = <<>>
           /\ ~pool_created
           /\ future_to_sheet = <<>>
           /\ fstate = <<>>

\* the call with no sheets has returned
C19_Witness ==
    /\ sheets = <<>>
    /\ spc = "returned"
    /\ results = <<>>
    /\ ~pool_created
\* C20: cleaning a text that has already been cleaned changes nothing:
\* clean_vietnamese_text(clean_vietnamese_text(t)) = clean_vietnamese_text(t).
C20_CleanIsIdempotent ==
    cleaner.pc = "twice" => cleaner.twice = cleaner.once
\* C22: a text that contains a quotation mark, or starts with one or with an
\* em dash, is classified dialog, also when it is upper-case or holds a
\* chapter keyword; every non-empty text gets one of the three kinds.
C22_DialogTakesPrecedence ==
    (detector.pc = "done" /\ detector.text # <<>>) =>
       /\ detector.kind \in {"dialog", "header", "paragraph"}
       /\ (\/ "\"" \in Range(detector.text)
           \/ detector.text[1] = "U+2014")
             => detector.kind = "dialog"

\* a quoted upper-case text and an em dash before a keyword were classified
C22_Witness ==
    /\ detector.pc = "done"
    /\ detector.text \in {<<"\"", "A">>, <<"U+2014", "m", "U+1EE5", "c">>}
    /\ detector.kind = "dialog"
\* the 0-based indices of the input cells a block was emitted for
BlockIndices == {proc.processed_blocks[k].original_index :
                    k \in 1..Len(proc.processed_blocks)}

\* C21: for a list of texts, a row has a block exactly when its cleaned text
\* has at least 10 characters (9 gives none, 10 gives one), and dropping a
\* row logs no warning and no error.
C21_BlockIffCleanedLengthAtLeastTen ==
    (/\ proc.pc = "returned"
     /\ \A j \in 1..Len(proc.raw_content_list) :
           proc.raw_content_list[j].kind = "str")
        => /\ \A j \in 1..Len(proc.raw_content_list) :
                 (j - 1 \in BlockIndices)
                    = (Len(CleanVietnameseText(proc.raw_content_list[j].text)) >= 10)
           /\ proc.raw_content_list # <<>> => proc.log = <<"info">>

\* a row cleaned to 9 characters was dropped, one cleaned to 10 was kept
C21_Witness ==
    /\ proc.pc = "returned"
    /\ Len(proc.raw_content_list) = 2
    /\ proc.raw_content_list[1] = StrCell(<<" ">> \o Fill("a", 9))
    /\ proc.raw_content_list[2] = StrCell(Fill("a", 9) \o <<".", ".", ".">>)
    /\ BlockIndices = {1}
    /\ Len(proc.processed_blocks[1].content) = 10
\* C23: the blocks come in input order: their original_index values increase
\* strictly, each is an index of the input list, each block holds the cleaned
\* text of the row at its original_index, and the input list never changes.
C23_BlocksFollowInputOrder ==
    /\ [](proc.pc # "none" =>
            /\ \A k \in 1..Len(proc.processed_blocks) :
                  LET b == proc.processed_blocks[k]
                  IN  /\ b.original_index \in 0..(Len(proc.raw_content_list) - 1)
                      /\ b.content = CleanVietnameseText(
                             proc.raw_content_list[b.original_index + 1].text)
            /\ \A k \in 1..(Len(proc.processed_blocks) - 1) :
                  proc.processed_blocks[k].original_index
                     < proc.processed_blocks[k + 1].original_index)
    /\ [][proc.pc # "none" =>
             proc'.raw_content_list = proc.raw_content_list]_vars

\* both rows of a list were kept, the first one changed by the cleaning
C23_Witness ==
    /\ proc.pc = "returned"
    /\ Len(proc.processed_blocks) = 2
    /\ proc.processed_blocks[1].original_index = 0
    /\ proc.processed_blocks[2].original_index = 1
    /\ proc.raw_content_list[1].text = <<" ">> \o Fill("a", 10)
    /\ proc.processed_blocks[1].content = Fill("a", 10)

\* C24: process_sheet_content raises for no input list, whatever its cells
\* are, and a missing, empty or blank cell gives no block.
C24_ProcessNeverRaises ==
    /\ proc.pc # "raised"
    /\ proc.pc = "returned" =>
          \A j \in 1..Len(proc.raw_content_list) :
              (\/ proc.raw_content_list[j].kind = "None"
               \/ proc.raw_content_list[j].text \in {<<>>, <<" ">>})
                 => \A k \in 1..Len(proc.processed_blocks) :
                       proc.processed_blocks[k].original_index # j - 1
\* C25: a run for one sheet whose rows were read, rendered into an artifact
\* and merged into a non-empty ebook has a merge list of length 1 and ends
\* with status 0.
C25_SingleSheetRunSucceeds ==
    (/\ mpc = "done"
     /\ Len(sheets_to_process) = 1
     /\ content[sheets_to_process[1]] > 0
     /\ Len(future_to_sheet) = 1
     /\ fret[1] = "path"
     /\ merge_ret = "path"
     /\ final_file = "nonempty")
        => /\ Len(pdf_files) = 1
           /\ exit_code = 0
\* the requested names that exist in the spreadsheet, in requested order
RequestedPresent ==
    LET Present(s) == s \in Range(sheet_names) IN SelectSeq(args_sheets, Present)

\* C26: with --sheets given, a finished run that found some requested name in
\* the spreadsheet has handed exactly the existing requested names, in
\* requested order, to the scheduler; absent names are warned about once; and
\* when no requested name exists main returns 1 with nothing scheduled.
C26_RequestedSubsetIsScheduled ==
    (mpc = "done" /\ args_sheets # <<>>) =>
       /\ warnings <= 1
       /\ sheets_to_process # <<>> =>
             /\ spc # "idle"
             /\ sheets = RequestedPresent
       /\ (sheets_to_process = <<>> /\ creds_exist /\ id_set) =>
             /\ exit_code = 1
             /\ spc = "idle"
             /\ future_to_sheet = <<>>
\* C27: in the story _build_story returns, paragraphs made from blocks of
\* different kinds (dialog, paragraph, header) carry different styles.
C27_DistinctStylePerKind ==
    story.pc = "returned" =>
       \A p, q \in 1..Len(story.story) :
           (/\ story.story[p].flowable = "Paragraph"
            /\ story.story[q].flowable = "Paragraph"
            /\ story.story[p].of \in {"dialog", "paragraph", "header"}
            /\ story.story[q].of \in {"dialog", "paragraph", "header"}
            /\ story.story[p].of # story.story[q].of)
               => story.story[p].style # story.story[q].style
\* C28: once process_sheets_parallel has returned, a sheet name is a key of
\* the mapping exactly when some task for that sheet returned a path, the
\* value is that sheet's artifact path, failed sheets are simply absent, and
\* the mapping is empty when every task failed.
C28_KeyIffTaskReturnedPath ==
    spc = "returned" =>
       /\ \A name \in Range(sheets) :
             /\ (\E k \in 1..Len(results) : results[k][1] = name)
                   = (\E i \in Futures : /\ future_to_sheet[i] = name
                                         /\ fret[i] = "path")
             /\ \A k \in 1..Len(results) :
                   results[k][1] = name => results[k][2] = ArtifactPath(name)
       /\ \A k \in 1..Len(results) : results[k][1] \in Range(sheets)
       /\ (\A i \in Futures : fret[i] # "path") => results = <<>>

\* two sheets, one task returned a path and the other raised or returned None
C28_Witness ==
    /\ spc = "returned"
    /\ sheets = <<"A/B", "A_B">>
    /\ fret[1] = "path"
    /\ fret[2] \in {"None", "raise"}
    /\ Len(results) = 1
    /\ results[1][1] = "A/B"
\* C29: at every moment at most max_workers task bodies are running, and a
\* task that waits in the queue is eventually started: none is skipped.
C29_AtMostMaxWorkersAndNoneSkipped ==
    /\ [](Cardinality({i \in Futures : fstate[i] = "running"}) <= max_workers)
    /\ \A i \in 1..MaxLiveSheets :
          (i \in Futures /\ fstate[i] = "pending")
             ~> (i \in Futures /\ fstate[i] = "running")

\* two tasks and one worker: the second task waited for the first to finish
\* and is running now
C29_Witness ==
    /\ max_workers = 1
    /\ Len(future_to_sheet) = 2
    /\ fstate = <<"done", "running">>
\* C30: read_column_d sleeps only between attempts: never before the first,
\* 3 to 5 units before the second, 5 to 7 before the third, so the delays do
\* not shrink; and an API call that succeeds with no cells ends the loop with
\* the empty list at once.
C30_BackoffGrowsAndEmptyEndsLoop ==
    reader.pc # "none" =>
       /\ Len(reader.slept) = Len(reader.calls) - (IF reader.calls = <<>> THEN 0 ELSE 1)
       /\ Len(reader.slept) >= 1 => reader.slept[1] \in 3..5
       /\ Len(reader.slept) >= 2 => reader.slept[2] \in 5..7
       /\ \A k \in 1..(Len(reader.slept) - 1) : reader.slept[k] <= reader.slept[k + 1]
       /\ (/\ reader.calls # <<>>
           /\ reader.calls[Len(reader.calls)] = "values")
             => /\ reader.pc = "returned"
                /\ reader.ret = reader.rows

\* both retries slept (5, then 5) and the third call returned no cells
C30_Witness ==
    /\ reader.pc = "returned"
    /\ reader.rows = 0
    /\ reader.calls = <<"raise", "raise", "values">>
    /\ reader.slept = <<5, 5>>
    /\ reader.ret = 0
====
